---- MODULE Spec2Model ----
(***************************************************************************)
(* Model of src/sst/overrides/nextsite.js: the CustomEdgeFunction version  *)
(* identifier (createVersionInUsEast1) and the NextSite construct          *)
(* (constructor, createRevalidation, createFunctionFor*,                   *)
(* createImageOptimizationFunction, createCloudFrontDistributionFor*,      *)
(* buildImageBehavior).                                                    *)
(*                                                                         *)
(* Strings are sequences of character codes.  A JavaScript object is a     *)
(* function from its keys to its values; an absent key is a key outside    *)
(* the DOMAIN.                                                             *)
(***************************************************************************)
EXTENDS Integers, Sequences, FiniteSets, TLC

(* ---------------------------------------------------------------------- *)
(* Bounds of the model                                                     *)
(* ---------------------------------------------------------------------- *)
MaxBaseLen == 257
AlphabetSize == 7
MaxPayloadLen == 2
SiteIdLen == 6
MaxPasses == 3

(* ---------------------------------------------------------------------- *)
(* Program constants                                                       *)
(* ---------------------------------------------------------------------- *)
MaxLogicalIdLen == 255
HashWidth == 32
BatchSize == 5
ReceiveWaitSeconds == 20

Min(a, b) == IF a <= b THEN a ELSE b

(* { ...a, ...b }: the keys of both, b's value where both have the key.    *)
Spread(a, b) == b @@ a

Has(obj, key) == key \in DOMAIN obj

(* ---------------------------------------------------------------------- *)
(* Inputs: base identifiers and code payloads                              *)
(* ---------------------------------------------------------------------- *)
BaseId(len, seed) == [i \in 1..len |-> (i + seed * (i \div 3)) % AlphabetSize]

BaseIds == { BaseId(len, seed) : len \in 1..MaxBaseLen, seed \in 0..1 }

Bytes == {0, 1}

Payloads == UNION { [1..n -> Bytes] : n \in 1..MaxPayloadLen }

(* Code.fromInline("export function handler() {}"), and the code of a unit *)
(* whose bundle is not built yet: no payload of Payloads.                  *)
PlaceholderCode == <<2>>

(* ---------------------------------------------------------------------- *)
(* CustomEdgeFunction                                                      *)
(* ---------------------------------------------------------------------- *)

(* EdgeFunction.trimFromStart(s, maxLength): the last min(maxLength, |s|) *)
(* characters of s.                                                        *)
trimFromStart(s, maxLength) ==
    LET desiredLength == Min(maxLength, Len(s))
        newStart == Len(s) - desiredLength
    IN SubSeq(s, newStart + 1, Len(s))

(* EdgeFunction.calculateHash(fn): a 32 digit digest of the function's    *)
(* packaged code, collision free on Payloads and PlaceholderCode: the      *)
(* length, then the bytes shifted by one, then zero padding.               *)
calculateHash(fn) ==
    [i \in 1..HashWidth |->
        IF i = 1 THEN Len(fn.code)
        ELSE IF i - 1 <= Len(fn.code) THEN fn.code[i - 1] + 1
        ELSE 0]

(* produce with the whole ceiling given to the base (mutation).            *)
produceNoRoom(originalLogicalId, fn) ==
    trimFromStart(originalLogicalId, MaxLogicalIdLen) \o calculateHash(fn)

(* produce ignoring the function (mutation).                               *)
produceNoHash(originalLogicalId, fn) ==
    trimFromStart(originalLogicalId, MaxLogicalIdLen - HashWidth)
        \o [i \in 1..HashWidth |-> 0]

(* The produce callback of Lazy.uncachedString.                            *)
produce(originalLogicalId, fn) ==
    LET hash == calculateHash(fn)
        logicalId == trimFromStart(originalLogicalId, MaxLogicalIdLen - HashWidth)
    IN logicalId \o hash

(* Resolution of what overrideLogicalId was given, a Lazy or a string.     *)
resolve(token, fn) ==
    IF token.lazy THEN produce(token.originalLogicalId, fn) ELSE token.value

(* createVersionInUsEast1 deriving the identifier when called (mutation).  *)
createVersionInUsEast1Eager(fn, originalLogicalId) ==
    [lazy |-> FALSE, originalLogicalId |-> originalLogicalId,
     value |-> produce(originalLogicalId, fn)]

(* createVersionInUsEast1 keeping the generated identifier (mutation).     *)
createVersionInUsEast1NoOverride(fn, originalLogicalId) ==
    [lazy |-> FALSE, originalLogicalId |-> originalLogicalId,
     value |-> originalLogicalId]

(* createVersionInUsEast1(fn, fnArn): the logical identifier the version   *)
(* resource is given, a Lazy closing over fn and originalLogicalId.         *)
createVersionInUsEast1(fn, originalLogicalId) ==
    [lazy |-> TRUE, originalLogicalId |-> originalLogicalId, value |-> <<>>]

(* ---------------------------------------------------------------------- *)
(* NextSite: the props a caller can give                                   *)
(* ---------------------------------------------------------------------- *)
Absent == <<>>

IsAbsent(x) == DOMAIN x = {}

FixedPaths == {"api/*", "_next/data/*", "_next/image*"}

OverridePaths == FixedPaths \cup {"docs/*"}

CallerBehavior ==
    [viewerProtocolPolicy |-> "ALLOW_ALL",
     origin |-> "CallerOrigin",
     allowedMethods |-> "ALLOW_GET_HEAD",
     cachedMethods |-> "CACHE_GET_HEAD",
     compress |-> FALSE,
     cachePolicy |-> "CallerBehaviorCachePolicy",
     responseHeadersPolicy |-> "CallerBehaviorHeadersPolicy",
     edgeLambdas |-> <<>>]

OverrideMaps == { [path \in S |-> CallerBehavior] : S \in SUBSET OverridePaths }

CfDistributionPropsSet ==
    { Spread(Spread(a, b), c) :
        a \in {Absent, [defaultRootObject |-> "index.html"]},
        b \in {Absent, [defaultBehavior |-> CallerBehavior]},
        c \in {Absent} \cup { [additionalBehaviors |-> m] : m \in OverrideMaps } }

(* topology: "edge" is props.edge, "regional" its absence, "none" a site   *)
(* that is not deployed and has neither server function.                   *)
PropsSet ==
    [topology : {"regional", "edge", "none"},
     enableServerUrlIamAuth : BOOLEAN,
     cfDistributionProps : CfDistributionPropsSet,
     serverCachePolicy : {"undefined", "CallerCachePolicy"},
     responseHeadersPolicy : {"undefined", "CallerHeadersPolicy"},
     cdkRevalidation : {Absent, [timeout |-> 60]}]

(* ---------------------------------------------------------------------- *)
(* NextSite: the resources it declares                                     *)
(* ---------------------------------------------------------------------- *)
CacheEnvironment ==
    [CACHE_BUCKET_NAME |-> "bucketName",
     CACHE_BUCKET_KEY_PREFIX |-> "_cache",
     CACHE_BUCKET_REGION |-> "region"]

createFunctionForRegional(p) ==
    [construct |-> "SsrFunction",
     code |-> PlaceholderCode,
     environment |-> CacheEnvironment,
     grants |-> {}]

createFunctionForEdge(p) ==
    [construct |-> "CustomEdgeFunction",
     code |-> PlaceholderCode,
     environment |-> CacheEnvironment,
     grants |-> {}]

(* useServerBehaviorCachePolicy(): the policy forwarding the allow list.   *)
useServerBehaviorCachePolicy ==
    "ServerCache(accept,rsc,next-router-prefetch,next-router-state-tree,next-url)"

(* createImageOptimizationFunction patching the code at once (mutation).   *)
createImageOptimizationFunctionEager(p) ==
    [fn |-> [code |-> "asset:image-optimization-function", authType |-> "unset"],
     deferred |-> <<>>]

(* createImageOptimizationFunction(): the function with its inline        *)
(* placeholder and the callback it pushes on deferredTaskCallbacks.        *)
createImageOptimizationFunction(p) ==
    [fn |-> [code |-> "inline", authType |-> "unset"],
     deferred |-> <<"updateImageCode">>]

(* buildImageBehavior attaching the signer whatever the mode (mutation).   *)
buildImageBehaviorAlwaysSigned(p) ==
    LET image == createImageOptimizationFunction(p)
        authType == IF p.enableServerUrlIamAuth THEN "AWS_IAM" ELSE "NONE"
    IN [behavior |->
            [viewerProtocolPolicy |-> "REDIRECT_TO_HTTPS",
             origin |-> "ImageFunctionUrl",
             allowedMethods |-> "ALLOW_ALL",
             cachedMethods |-> "CACHE_GET_HEAD_OPTIONS",
             compress |-> TRUE,
             cachePolicy |-> IF p.serverCachePolicy # "undefined"
                             THEN p.serverCachePolicy
                             ELSE useServerBehaviorCachePolicy,
             responseHeadersPolicy |-> p.responseHeadersPolicy,
             edgeLambdas |->
                 << [includeBody |-> TRUE, eventType |-> "ORIGIN_REQUEST",
                     functionVersion |-> "ServerUrlSigningFunction"] >>],
        imageFn |-> [image.fn EXCEPT !.authType = authType],
        signerPermissions |-> { <<"lambda:InvokeFunctionUrl", "ImageFunction">> },
        deferred |-> image.deferred]

(* buildImageBehavior(): the image Behavior, the image function with its   *)
(* function URL, the permissions attached to the signing function and the  *)
(* callbacks pushed on the way.                                            *)
buildImageBehavior(p) ==
    LET image == createImageOptimizationFunction(p)
        authType == IF p.enableServerUrlIamAuth THEN "AWS_IAM" ELSE "NONE"
    IN [behavior |->
            [viewerProtocolPolicy |-> "REDIRECT_TO_HTTPS",
             origin |-> "ImageFunctionUrl",
             allowedMethods |-> "ALLOW_ALL",
             cachedMethods |-> "CACHE_GET_HEAD_OPTIONS",
             compress |-> TRUE,
             cachePolicy |-> IF p.serverCachePolicy # "undefined"
                             THEN p.serverCachePolicy
                             ELSE useServerBehaviorCachePolicy,
             responseHeadersPolicy |-> p.responseHeadersPolicy,
             edgeLambdas |->
                 IF p.enableServerUrlIamAuth
                 THEN << [includeBody |-> TRUE, eventType |-> "ORIGIN_REQUEST",
                          functionVersion |-> "ServerUrlSigningFunction"] >>
                 ELSE <<>>],
        imageFn |-> [image.fn EXCEPT !.authType = authType],
        signerPermissions |->
            IF p.enableServerUrlIamAuth
            THEN { <<"lambda:InvokeFunctionUrl", "ImageFunction">> }
            ELSE {},
        deferred |-> image.deferred]

(* SsrSite.buildDefaultBehaviorForRegional(): the server function's URL as *)
(* the origin.                                                             *)
buildDefaultBehaviorForRegional(p) ==
    [viewerProtocolPolicy |-> "REDIRECT_TO_HTTPS",
     origin |-> "ServerFunctionUrl",
     allowedMethods |-> "ALLOW_ALL",
     cachedMethods |-> "CACHE_GET_HEAD_OPTIONS",
     compress |-> TRUE,
     cachePolicy |-> IF p.serverCachePolicy # "undefined"
                     THEN p.serverCachePolicy
                     ELSE useServerBehaviorCachePolicy,
     responseHeadersPolicy |-> p.responseHeadersPolicy,
     edgeLambdas |-> <<>>]

(* SsrSite.buildDefaultBehaviorForEdge(): the versioned edge function as   *)
(* the handler, in front of the bucket.                                    *)
buildDefaultBehaviorForEdge(p) ==
    [viewerProtocolPolicy |-> "REDIRECT_TO_HTTPS",
     origin |-> "BucketOrigin",
     allowedMethods |-> "ALLOW_ALL",
     cachedMethods |-> "CACHE_GET_HEAD_OPTIONS",
     compress |-> TRUE,
     cachePolicy |-> IF p.serverCachePolicy # "undefined"
                     THEN p.serverCachePolicy
                     ELSE useServerBehaviorCachePolicy,
     responseHeadersPolicy |-> p.responseHeadersPolicy,
     edgeLambdas |->
         << [includeBody |-> TRUE, eventType |-> "ORIGIN_REQUEST",
             functionVersion |-> "ServerFunctionVersion"] >>]

AdditionalBehaviorsOf(cfDistributionProps) ==
    IF Has(cfDistributionProps, "additionalBehaviors")
    THEN cfDistributionProps.additionalBehaviors
    ELSE Absent

(* createCloudFrontDistributionForRegional with the caller's props spread  *)
(* after the fixed ones (mutation).                                        *)
createCloudFrontDistributionForRegionalCallerLast(p) ==
    LET cfDistributionProps == p.cfDistributionProps
        serverBehavior == buildDefaultBehaviorForRegional(p)
        image == buildImageBehavior(p)
    IN [distribution |->
            Spread(Spread([defaultRootObject |-> ""],
                          [defaultBehavior |-> serverBehavior,
                           additionalBehaviors |->
                               Spread([path \in FixedPaths |->
                                          IF path = "_next/image*"
                                          THEN image.behavior
                                          ELSE serverBehavior],
                                      AdditionalBehaviorsOf(cfDistributionProps))]),
                   cfDistributionProps),
        imageBehavior |-> image.behavior,
        imageFn |-> image.imageFn,
        signerPermissions |-> image.signerPermissions,
        deferred |-> image.deferred]

(* createCloudFrontDistributionForRegional with the caller's behaviors     *)
(* spread before the fixed ones (mutation).                                *)
createCloudFrontDistributionForRegionalFixedLast(p) ==
    LET cfDistributionProps == p.cfDistributionProps
        serverBehavior == buildDefaultBehaviorForRegional(p)
        image == buildImageBehavior(p)
    IN [distribution |->
            Spread(Spread([defaultRootObject |-> ""], cfDistributionProps),
                   [defaultBehavior |-> serverBehavior,
                    additionalBehaviors |->
                        Spread(AdditionalBehaviorsOf(cfDistributionProps),
                               [path \in FixedPaths |->
                                   IF path = "_next/image*"
                                   THEN image.behavior
                                   ELSE serverBehavior])]),
        imageBehavior |-> image.behavior,
        imageFn |-> image.imageFn,
        signerPermissions |-> image.signerPermissions,
        deferred |-> image.deferred]

(* createCloudFrontDistributionForRegional(): the props handed to          *)
(* Distribution, and what buildImageBehavior() declared on the way.        *)
createCloudFrontDistributionForRegional(p) ==
    LET cfDistributionProps == p.cfDistributionProps
        serverBehavior == buildDefaultBehaviorForRegional(p)
        image == buildImageBehavior(p)
    IN [distribution |->
            Spread(Spread([defaultRootObject |-> ""], cfDistributionProps),
                   [defaultBehavior |-> serverBehavior,
                    additionalBehaviors |->
                        Spread([path \in FixedPaths |->
                                   IF path = "_next/image*"
                                   THEN image.behavior
                                   ELSE serverBehavior],
                               AdditionalBehaviorsOf(cfDistributionProps))]),
        imageBehavior |-> image.behavior,
        imageFn |-> image.imageFn,
        signerPermissions |-> image.signerPermissions,
        deferred |-> image.deferred]

(* createCloudFrontDistributionForEdge with the image Behavior of the      *)
(* regional topology (mutation).                                           *)
createCloudFrontDistributionForEdgeWithImage(p) ==
    LET cfDistributionProps == p.cfDistributionProps
        serverBehavior == buildDefaultBehaviorForEdge(p)
        image == buildImageBehavior(p)
    IN [distribution |->
            Spread(Spread([defaultRootObject |-> ""], cfDistributionProps),
                   [defaultBehavior |-> serverBehavior,
                    additionalBehaviors |->
                        Spread([path \in FixedPaths |->
                                   IF path = "_next/image*"
                                   THEN image.behavior
                                   ELSE serverBehavior],
                               AdditionalBehaviorsOf(cfDistributionProps))]),
        imageBehavior |-> image.behavior,
        imageFn |-> image.imageFn,
        signerPermissions |-> image.signerPermissions,
        deferred |-> image.deferred]

(* createCloudFrontDistributionForEdge(): no image Behavior is built.      *)
createCloudFrontDistributionForEdge(p) ==
    LET cfDistributionProps == p.cfDistributionProps
        serverBehavior == buildDefaultBehaviorForEdge(p)
    IN [distribution |->
            Spread(Spread([defaultRootObject |-> ""], cfDistributionProps),
                   [defaultBehavior |-> serverBehavior,
                    additionalBehaviors |->
                        Spread([path \in FixedPaths \ {"_next/image*"} |->
                                   serverBehavior],
                               AdditionalBehaviorsOf(cfDistributionProps))]),
        imageBehavior |-> Absent,
        imageFn |-> Absent,
        signerPermissions |-> {},
        deferred |-> <<>>]

(* createRevalidation() past its guard: the queue, the consumer bound to   *)
(* it, and the server function given the queue's address and the right to   *)
(* send.                                                                   *)
wireRevalidation(regional, edge, p) ==
    LET revalidationQueue ==
            [fifo |-> TRUE, receiveMessageWaitTime |-> ReceiveWaitSeconds]
        revalidationFunction ==
            [props |-> Spread([description |-> "Next.js revalidator",
                               handler |-> "index.handler",
                               code |-> "asset:revalidation-function",
                               runtime |-> "NODEJS_18_X",
                               timeout |-> 30],
                              p.cdkRevalidation),
             eventSources |-> { [queue |-> "RevalidationQueue",
                                 batchSize |-> BatchSize] }]
        server == IF ~IsAbsent(regional) THEN regional ELSE edge
        wired ==
            [server EXCEPT
                !.environment =
                    Spread(Spread(@, [REVALIDATION_QUEUE_URL |-> "queueUrl"]),
                           [REVALIDATION_QUEUE_REGION |-> "region"]),
                !.grants = @ \cup {"sqs:SendMessage"}]
    IN [serverLambdaForRegional |->
            IF ~IsAbsent(regional) THEN wired ELSE regional,
        serverLambdaForEdge |->
            IF ~IsAbsent(regional) THEN edge ELSE wired,
        queue |-> revalidationQueue,
        consumer |-> revalidationFunction]

(* createRevalidation returning when either server function is missing    *)
(* (mutation).                                                             *)
createRevalidationEitherMissing(regional, edge, p) ==
    IF IsAbsent(regional) \/ IsAbsent(edge)
    THEN [serverLambdaForRegional |-> regional,
          serverLambdaForEdge |-> edge,
          queue |-> Absent,
          consumer |-> Absent]
    ELSE wireRevalidation(regional, edge, p)

(* createRevalidation(): the server functions, the queue and the consumer  *)
(* after the call.                                                         *)
createRevalidation(regional, edge, p) ==
    IF IsAbsent(regional) /\ IsAbsent(edge)
    THEN [serverLambdaForRegional |-> regional,
          serverLambdaForEdge |-> edge,
          queue |-> Absent,
          consumer |-> Absent]
    ELSE wireRevalidation(regional, edge, p)

(* NextSite.constructor, after super(): deferredTaskCallbacks.push(...).   *)
registerRevalidation(callbacks) == Append(callbacks, "createRevalidation")

(* ---------------------------------------------------------------------- *)
(* State                                                                   *)
(* ---------------------------------------------------------------------- *)
VARIABLES
    idBase, idP1, idP2, idOut1, idOut2, idPc,
    props, originalLogicalId, phase, pass,
    deferredTaskCallbacks, ran,
    serverLambdaForRegional, serverLambdaForEdge,
    imageBehavior, imageFn, signerPermissions, distribution,
    queue, consumer,
    versionToken, payload, template,
    stack, created, prevPayload, prevTemplate

idVars == <<idBase, idP1, idP2, idOut1, idOut2, idPc>>

inputVars == <<props, originalLogicalId>>

siteVars ==
    <<deferredTaskCallbacks, ran, serverLambdaForRegional, serverLambdaForEdge,
      imageBehavior, imageFn, signerPermissions, distribution, queue, consumer,
      versionToken>>

deployVars == <<stack, created, prevPayload, prevTemplate>>

vars == <<idVars, inputVars, phase, pass, siteVars, payload, template, deployVars>>

SiteBaseIds == { BaseId(SiteIdLen, 0) }

IdIdle ==
    /\ idBase = <<>>
    /\ idP1 = <<>>
    /\ idP2 = <<>>
    /\ idOut1 = <<>>
    /\ idOut2 = <<>>
    /\ idPc = "idle"

SiteNew ==
    /\ deferredTaskCallbacks = <<>>
    /\ ran = <<>>
    /\ serverLambdaForRegional = Absent
    /\ serverLambdaForEdge = Absent
    /\ imageBehavior = Absent
    /\ imageFn = Absent
    /\ signerPermissions = {}
    /\ distribution = Absent
    /\ queue = Absent
    /\ consumer = Absent
    /\ versionToken = Absent

StackNew ==
    /\ stack = {}
    /\ created = {}
    /\ prevPayload = <<>>
    /\ prevTemplate = <<>>

Init ==
    /\ IdIdle
    /\ props \in PropsSet
    /\ originalLogicalId \in SiteBaseIds
    /\ phase = "new"
    /\ pass = 1
    /\ SiteNew
    /\ payload = <<>>
    /\ template = <<>>
    /\ StackNew

(* ---------------------------------------------------------------------- *)
(* One synthesis pass                                                      *)
(* ---------------------------------------------------------------------- *)

(* new NextSite(scope, id, props): super() declares the server function    *)
(* and the distribution of the topology, then the constructor registers    *)
(* the revalidation callback.                                              *)
Construct ==
    /\ phase = "new"
    /\ LET regional == IF props.topology = "regional"
                       THEN createFunctionForRegional(props) ELSE Absent
           edge == IF props.topology = "edge"
                   THEN createFunctionForEdge(props) ELSE Absent
           cdn == IF props.topology = "regional"
                  THEN createCloudFrontDistributionForRegional(props)
                  ELSE IF props.topology = "edge"
                  THEN createCloudFrontDistributionForEdge(props)
                  ELSE [distribution |-> Absent, imageBehavior |-> Absent,
                        imageFn |-> Absent,
                        signerPermissions |-> {}, deferred |-> <<>>]
       IN /\ serverLambdaForRegional' = regional
          /\ serverLambdaForEdge' = edge
          /\ versionToken' = IF props.topology = "edge"
                             THEN createVersionInUsEast1(edge, originalLogicalId)
                             ELSE Absent
          /\ distribution' = cdn.distribution
          /\ imageBehavior' = cdn.imageBehavior
          /\ imageFn' = cdn.imageFn
          /\ signerPermissions' = cdn.signerPermissions
          /\ deferredTaskCallbacks' = registerRevalidation(cdn.deferred)
    /\ phase' = "declared"
    /\ UNCHANGED <<idVars, inputVars, pass, ran, queue, consumer,
                   payload, template, deployVars>>

(* The build command has run: the bundles are on disk and the server       *)
(* function carries its bundle.                                            *)
Build ==
    /\ phase = "declared"
    /\ \E bundle \in Payloads :
        /\ payload' = bundle
        /\ serverLambdaForRegional' =
              IF IsAbsent(serverLambdaForRegional) THEN Absent
              ELSE [serverLambdaForRegional EXCEPT !.code = bundle]
        /\ serverLambdaForEdge' =
              IF IsAbsent(serverLambdaForEdge) THEN Absent
              ELSE [serverLambdaForEdge EXCEPT !.code = bundle]
    /\ phase' = "built"
    /\ UNCHANGED <<idVars, inputVars, pass, deferredTaskCallbacks, ran,
                   imageBehavior, imageFn, signerPermissions, distribution, queue, consumer,
                   versionToken, template, deployVars>>

(* The next callback of deferredTaskCallbacks is called.                   *)
RunDeferredTask ==
    /\ phase = "built"
    /\ Len(ran) < Len(deferredTaskCallbacks)
    /\ LET task == deferredTaskCallbacks[Len(ran) + 1]
       IN /\ ran' = Append(ran, task)
          /\ IF task = "updateImageCode"
             THEN /\ imageFn' = IF IsAbsent(imageFn) THEN imageFn
                                ELSE [imageFn EXCEPT
                                        !.code = "asset:image-optimization-function"]
                  /\ UNCHANGED <<serverLambdaForRegional, serverLambdaForEdge,
                                 queue, consumer>>
             ELSE LET r == createRevalidation(serverLambdaForRegional,
                                              serverLambdaForEdge, props)
                  IN /\ serverLambdaForRegional' = r.serverLambdaForRegional
                     /\ serverLambdaForEdge' = r.serverLambdaForEdge
                     /\ queue' = r.queue
                     /\ consumer' = r.consumer
                     /\ UNCHANGED imageFn
    /\ UNCHANGED <<idVars, inputVars, phase, pass, deferredTaskCallbacks,
                   imageBehavior, signerPermissions, distribution, versionToken,
                   payload, template, deployVars>>

(* The template is synthesized: the version's logical identifier is        *)
(* resolved.                                                               *)
Synthesize ==
    /\ phase = "built"
    /\ Len(ran) = Len(deferredTaskCallbacks)
    /\ template' = IF IsAbsent(versionToken) THEN <<>>
                   ELSE resolve(versionToken, serverLambdaForEdge)
    /\ phase' = "synthesized"
    /\ UNCHANGED <<idVars, inputVars, pass, siteVars, payload, deployVars>>

(* The template is deployed: a logical identifier the stack does not have  *)
(* is created, one it has is updated, one the template lost is removed.    *)
Deploy ==
    /\ phase = "synthesized"
    /\ LET wanted == IF IsAbsent(versionToken) THEN {} ELSE {template}
       IN /\ created' = wanted \ stack
          /\ stack' = wanted
    /\ phase' = "deployed"
    /\ UNCHANGED <<idVars, inputVars, pass, siteVars, payload, template,
                   prevPayload, prevTemplate>>

(* The site is synthesized again, by a new run of the program on the       *)
(* stack the last one left.                                                *)
Rebuild ==
    /\ phase = "deployed"
    /\ pass < MaxPasses
    /\ pass' = pass + 1
    /\ phase' = "new"
    /\ prevPayload' = payload
    /\ prevTemplate' = template
    /\ payload' = <<>>
    /\ template' = <<>>
    /\ deferredTaskCallbacks' = <<>>
    /\ ran' = <<>>
    /\ serverLambdaForRegional' = Absent
    /\ serverLambdaForEdge' = Absent
    /\ imageBehavior' = Absent
    /\ imageFn' = Absent
    /\ signerPermissions' = {}
    /\ distribution' = Absent
    /\ queue' = Absent
    /\ consumer' = Absent
    /\ versionToken' = Absent
    /\ UNCHANGED <<idVars, inputVars, stack, created>>

Next ==
    \/ Construct
    \/ Build
    \/ RunDeferredTask
    \/ Synthesize
    \/ Deploy

Spec == Init /\ [][Next]_vars

(* ---------------------------------------------------------------------- *)
(* Successive passes over one edge replicated site                         *)
(* ---------------------------------------------------------------------- *)
InitPasses ==
    /\ Init
    /\ props.topology = "edge"
    /\ props.cfDistributionProps = Absent
    /\ props.cdkRevalidation = Absent

NextPasses ==
    \/ Construct
    \/ Build
    \/ RunDeferredTask
    \/ Synthesize
    \/ Deploy
    \/ Rebuild

SpecPasses == InitPasses /\ [][NextPasses]_vars

(* ---------------------------------------------------------------------- *)
(* Identifier derivation on its own                                        *)
(* ---------------------------------------------------------------------- *)
InitId ==
    /\ idBase \in BaseIds
    /\ idP1 \in Payloads
    /\ idP2 \in Payloads
    /\ idOut1 = <<>>
    /\ idOut2 = <<>>
    /\ idPc = "input"
    /\ props \in {p \in PropsSet :
                    /\ p.topology = "none"
                    /\ ~p.enableServerUrlIamAuth
                    /\ p.cfDistributionProps = Absent
                    /\ p.serverCachePolicy = "undefined"
                    /\ p.responseHeadersPolicy = "undefined"
                    /\ p.cdkRevalidation = Absent}
    /\ originalLogicalId = <<>>
    /\ phase = "idle"
    /\ pass = 1
    /\ SiteNew
    /\ payload = <<>>
    /\ template = <<>>
    /\ StackNew

DeriveIdentifiers ==
    /\ idPc = "input"
    /\ idOut1' = produce(idBase, [code |-> idP1])
    /\ idOut2' = produce(idBase, [code |-> idP2])
    /\ idPc' = "derived"
    /\ UNCHANGED <<idBase, idP1, idP2, inputVars, phase, pass, siteVars,
                   payload, template, deployVars>>

NextId == DeriveIdentifiers

SpecId == InitId /\ [][NextId]_vars

(* ---------------------------------------------------------------------- *)
(* Properties                                                              *)
(* ---------------------------------------------------------------------- *)
Declared == phase \in {"declared", "built", "synthesized", "deployed"}

Finalized == phase \in {"synthesized", "deployed"}

Overrides == AdditionalBehaviorsOf(props.cfDistributionProps)

HashSuffix(id) ==
    IF Len(id) >= HashWidth
    THEN SubSeq(id, Len(id) - HashWidth + 1, Len(id))
    ELSE id

IsPrefix(a, b) == Len(a) <= Len(b) /\ SubSeq(b, 1, Len(a)) = a

RevalidationKeys == {"REVALIDATION_QUEUE_URL", "REVALIDATION_QUEUE_REGION"}

(* C1: over successive passes on one edge replicated unit, a pass with the *)
(* payload of the pass before it resolves the same version identifier and  *)
(* the deployment creates no version resource; a pass with another payload *)
(* resolves another identifier and the deployment creates the version      *)
(* resource of that identifier; the stack holds one version resource, the  *)
(* one carrying the hash of the deployed payload.                          *)
C1_VersionFollowsContent ==
    phase = "deployed" =>
        /\ stack = {template}
        /\ HashSuffix(template) = calculateHash([code |-> payload])
        /\ pass = 1 => created = {template}
        /\ (pass > 1 /\ payload = prevPayload) =>
              (template = prevTemplate /\ created = {})
        /\ (pass > 1 /\ payload # prevPayload) =>
              (template # prevTemplate /\ created = {template})

C1_Witness ==
    /\ phase = "deployed"
    /\ pass = MaxPasses
    /\ payload # prevPayload
    /\ template # prevTemplate
    /\ created = {template}

(* C2: for one base identifier, the identifiers derived for two payloads   *)
(* are equal exactly when the payloads are byte identical.                 *)
C2_IdentifierInjective ==
    idPc = "derived" => ((idOut1 = idOut2) <=> (idP1 = idP2))

C2_Witness ==
    /\ idPc = "derived"
    /\ Len(idP1) = Len(idP2)
    /\ idP1 # idP2
    /\ idOut1 # idOut2

(* C3: the derived identifier is the last min(L, 255 - 32) characters of   *)
(* the base of length L followed by the 32 characters of the hash; its     *)
(* length is min(L, 255 - 32) + 32 and at most 255.                        *)
C3_TrimmedFromStart ==
    idPc = "derived" =>
        LET L == Len(idBase)
            kept == Min(L, MaxLogicalIdLen - HashWidth)
            hash == calculateHash([code |-> idP1])
        IN /\ Len(idOut1) = kept + HashWidth
           /\ Len(idOut1) <= MaxLogicalIdLen
           /\ \A i \in 1..kept : idOut1[i] = idBase[L - kept + i]
           /\ \A j \in 1..HashWidth : idOut1[kept + j] = hash[j]

C3_Witness ==
    /\ idPc = "derived"
    /\ Len(idBase) > MaxLogicalIdLen
    /\ Len(idOut1) = MaxLogicalIdLen
    /\ idOut1[1] = idBase[Len(idBase) - (MaxLogicalIdLen - HashWidth) + 1]

(* C4 as stated: whatever the caller's overrides, the edge route table has *)
(* no _next/image* behavior and the regional one has it; without overrides *)
(* the regional table has 4 behaviors and the edge table 3.                *)
C4_AsStated ==
    (Declared /\ props.topology # "none") =>
        /\ props.topology = "edge" =>
              ~Has(distribution.additionalBehaviors, "_next/image*")
        /\ props.topology = "regional" =>
              Has(distribution.additionalBehaviors, "_next/image*")
        /\ (IsAbsent(Overrides) /\ props.topology = "regional") =>
              1 + Cardinality(DOMAIN distribution.additionalBehaviors) = 4
        /\ (IsAbsent(Overrides) /\ props.topology = "edge") =>
              1 + Cardinality(DOMAIN distribution.additionalBehaviors) = 3

(* C4: the edge route table has a _next/image* behavior exactly when the   *)
(* caller's overrides give one, and then it is the caller's; no image      *)
(* behavior or image function is built in the edge topology; the regional  *)
(* route table always has a _next/image* behavior; without overrides the   *)
(* regional table is default, api/*, _next/data/*, _next/image* and the    *)
(* edge table default, api/*, _next/data/*.                                *)
C4_TopologyExclusivity ==
    (Declared /\ props.topology # "none") =>
        /\ props.topology = "edge" =>
              /\ Has(distribution.additionalBehaviors, "_next/image*")
                    <=> Has(Overrides, "_next/image*")
              /\ Has(Overrides, "_next/image*") =>
                    distribution.additionalBehaviors["_next/image*"]
                        = Overrides["_next/image*"]
              /\ IsAbsent(imageBehavior)
              /\ IsAbsent(imageFn)
        /\ props.topology = "regional" =>
              Has(distribution.additionalBehaviors, "_next/image*")
        /\ (IsAbsent(Overrides) /\ props.topology = "regional") =>
              /\ Has(distribution, "defaultBehavior")
              /\ DOMAIN distribution.additionalBehaviors
                    = {"api/*", "_next/data/*", "_next/image*"}
              /\ distribution.additionalBehaviors["_next/image*"] = imageBehavior
        /\ (IsAbsent(Overrides) /\ props.topology = "edge") =>
              /\ Has(distribution, "defaultBehavior")
              /\ DOMAIN distribution.additionalBehaviors
                    = {"api/*", "_next/data/*"}

C4_Witness ==
    /\ Declared
    /\ props.topology = "edge"
    /\ Has(Overrides, "_next/image*")
    /\ distribution.additionalBehaviors["_next/image*"] = CallerBehavior

(* C5: whatever the caller gives, its own defaultBehavior included, the    *)
(* distribution has a default behavior and its origin and handler are the  *)
(* topology's server behavior's: the server function's URL with no handler *)
(* when regional, the versioned edge function when edge replicated; the    *)
(* caller's policies reach only its cache policy and headers policy.       *)
C5_DefaultBehaviorIsServer ==
    (Declared /\ props.topology # "none") =>
        /\ Has(distribution, "defaultBehavior")
        /\ LET default == distribution.defaultBehavior
           IN /\ props.topology = "regional" =>
                    /\ default.origin = "ServerFunctionUrl"
                    /\ default.edgeLambdas = <<>>
              /\ props.topology = "edge" =>
                    /\ default.origin = "BucketOrigin"
                    /\ Len(default.edgeLambdas) = 1
                    /\ default.edgeLambdas[1].functionVersion
                          = "ServerFunctionVersion"
              /\ default.viewerProtocolPolicy = "REDIRECT_TO_HTTPS"
              /\ default.allowedMethods = "ALLOW_ALL"
              /\ default.cachedMethods = "CACHE_GET_HEAD_OPTIONS"
              /\ default.compress
              /\ default.cachePolicy
                    = IF props.serverCachePolicy = "undefined"
                      THEN useServerBehaviorCachePolicy
                      ELSE props.serverCachePolicy
              /\ default.responseHeadersPolicy = props.responseHeadersPolicy

C5_Witness ==
    /\ Declared
    /\ props.topology = "regional"
    /\ Has(props.cfDistributionProps, "defaultBehavior")
    /\ props.serverCachePolicy = "CallerCachePolicy"
    /\ distribution.defaultBehavior.cachePolicy = "CallerCachePolicy"
    /\ distribution.defaultBehavior.origin = "ServerFunctionUrl"

(* C6: the additional behaviors are the fixed entries of the topology      *)
(* overridden by the caller's: every path of the overrides has the        *)
(* caller's behavior, every fixed path outside them keeps its own, the     *)
(* image behavior for _next/image* and the default behavior otherwise.     *)
C6_RightBiasedMerge ==
    (Declared /\ props.topology # "none") =>
        LET fixed == IF props.topology = "regional"
                     THEN FixedPaths ELSE FixedPaths \ {"_next/image*"}
            table == distribution.additionalBehaviors
        IN /\ DOMAIN table = fixed \cup DOMAIN Overrides
           /\ \A path \in DOMAIN Overrides : table[path] = Overrides[path]
           /\ \A path \in fixed \ DOMAIN Overrides :
                 table[path] = IF path = "_next/image*"
                               THEN imageBehavior
                               ELSE distribution.defaultBehavior

C6_Witness ==
    /\ Declared
    /\ props.topology = "regional"
    /\ DOMAIN Overrides = {"api/*"}
    /\ distribution.additionalBehaviors["api/*"] = CallerBehavior
    /\ distribution.additionalBehaviors["_next/data/*"]
          = distribution.defaultBehavior
    /\ distribution.defaultBehavior.origin = "ServerFunctionUrl"

Server ==
    IF ~IsAbsent(serverLambdaForRegional) THEN serverLambdaForRegional
    ELSE serverLambdaForEdge

RevalidationRan == \E i \in 1..Len(ran) : ran[i] = "createRevalidation"

(* C7: once createRevalidation has run, a FIFO queue with a 20 second      *)
(* receive wait and a consumer bound to it with batch size 5 exist, and    *)
(* the server function has REVALIDATION_QUEUE_URL and                      *)
(* REVALIDATION_QUEUE_REGION and the right to send, exactly when a server *)
(* function, regional or edge, exists; with neither there is no queue, no  *)
(* consumer and no server function touched; with one, the regional one if  *)
(* present and else the edge one is the only unit given the values.  Until *)
(* the call there is no queue and no unit has the values.                  *)
C7_RevalidationWiring ==
    /\ RevalidationRan =>
        /\ props.topology = "none" =>
              /\ IsAbsent(queue)
              /\ IsAbsent(consumer)
              /\ IsAbsent(serverLambdaForRegional)
              /\ IsAbsent(serverLambdaForEdge)
        /\ props.topology # "none" =>
              /\ ~IsAbsent(queue)
              /\ queue.fifo
              /\ queue.receiveMessageWaitTime = 20
              /\ ~IsAbsent(consumer)
              /\ consumer.eventSources
                    = { [queue |-> "RevalidationQueue", batchSize |-> 5] }
              /\ RevalidationKeys \subseteq DOMAIN Server.environment
              /\ Server.environment["REVALIDATION_QUEUE_URL"] = "queueUrl"
              /\ Server.environment["REVALIDATION_QUEUE_REGION"] = "region"
              /\ "sqs:SendMessage" \in Server.grants
              /\ IsAbsent(serverLambdaForRegional) # IsAbsent(serverLambdaForEdge)
              /\ (props.topology = "regional") = ~IsAbsent(serverLambdaForRegional)
    /\ ~RevalidationRan =>
        /\ IsAbsent(queue)
        /\ IsAbsent(consumer)
        /\ ~IsAbsent(Server) =>
              /\ RevalidationKeys \cap DOMAIN Server.environment = {}
              /\ Server.grants = {}

C7_Witness ==
    /\ RevalidationRan
    /\ props.topology = "edge"
    /\ queue.fifo
    /\ RevalidationKeys \subseteq DOMAIN serverLambdaForEdge.environment
    /\ "sqs:SendMessage" \in serverLambdaForEdge.grants

SignerGrant == <<"lambda:InvokeFunctionUrl", "ImageFunction">>

(* C8 as stated: the image behavior carries a signing edge function fired  *)
(* on viewer requests and granted the invocation of the transform          *)
(* endpoint exactly when signed invocation is requested, and the endpoint  *)
(* asks for signed invocation exactly then.                                *)
C8_AsStated ==
    (Declared /\ props.topology = "regional") =>
        /\ props.enableServerUrlIamAuth <=>
              /\ Len(imageBehavior.edgeLambdas) = 1
              /\ imageBehavior.edgeLambdas[1].eventType = "VIEWER_REQUEST"
              /\ SignerGrant \in signerPermissions
        /\ props.enableServerUrlIamAuth <=> imageFn.authType = "AWS_IAM"

(* C8: the image behavior carries a signing edge function, fired on origin *)
(* requests with the body included and granted the invocation of the       *)
(* transform endpoint, exactly when signed invocation is requested, and    *)
(* carries no edge function and grants nothing otherwise; the endpoint     *)
(* asks for signed invocation exactly when it is requested and is public   *)
(* otherwise.                                                              *)
C8_SigningMatchesEndpoint ==
    (Declared /\ props.topology = "regional") =>
        /\ props.enableServerUrlIamAuth =>
              /\ Len(imageBehavior.edgeLambdas) = 1
              /\ imageBehavior.edgeLambdas[1].eventType = "ORIGIN_REQUEST"
              /\ imageBehavior.edgeLambdas[1].includeBody
              /\ imageBehavior.edgeLambdas[1].functionVersion
                    = "ServerUrlSigningFunction"
              /\ signerPermissions = {SignerGrant}
              /\ imageFn.authType = "AWS_IAM"
        /\ ~props.enableServerUrlIamAuth =>
              /\ imageBehavior.edgeLambdas = <<>>
              /\ signerPermissions = {}
              /\ imageFn.authType = "NONE"
        /\ imageBehavior.origin = "ImageFunctionUrl"

C8_Witness ==
    /\ Declared
    /\ props.topology = "regional"
    /\ props.enableServerUrlIamAuth
    /\ imageFn.authType = "AWS_IAM"
    /\ Len(imageBehavior.edgeLambdas) = 1
    /\ SignerGrant \in signerPermissions

(* C9: the callbacks are registered while the site is declared, the image  *)
(* code patch before the revalidation wiring; none runs before the build   *)
(* is done; they run in the order of the list, each once, and all have run *)
(* when the template is synthesized; until its patch runs the image        *)
(* function has its inline placeholder, until the build is done the server *)
(* function has no bundle and no version identifier is resolved.           *)
C9_TwoPhase ==
    /\ Declared =>
          deferredTaskCallbacks =
              IF props.topology = "regional"
              THEN <<"updateImageCode", "createRevalidation">>
              ELSE <<"createRevalidation">>
    /\ phase \in {"new", "declared"} =>
          /\ ran = <<>>
          /\ payload = <<>>
          /\ template = <<>>
          /\ ~IsAbsent(Server) => Server.code = PlaceholderCode
          /\ IsAbsent(queue)
    /\ IsPrefix(ran, deferredTaskCallbacks)
    /\ \A i, j \in 1..Len(ran) : ran[i] = ran[j] => i = j
    /\ Finalized => ran = deferredTaskCallbacks
    /\ ~IsAbsent(imageFn) =>
          imageFn.code =
              IF \E i \in 1..Len(ran) : ran[i] = "updateImageCode"
              THEN "asset:image-optimization-function"
              ELSE "inline"
    /\ template # <<>> => Finalized

C9_Witness ==
    /\ phase = "synthesized"
    /\ ran = <<"updateImageCode", "createRevalidation">>
    /\ imageFn.code = "asset:image-optimization-function"
    /\ ~IsAbsent(queue)

(* C10: in the edge replicated topology the version identifier is resolved *)
(* after the revalidation callback gave the server function the queue's    *)
(* address and region, it is the identifier derived from the function as   *)
(* it is then, and the function does not change once the identifier is     *)
(* resolved.                                                               *)
C10_InjectionBeforeIdentifier ==
    /\ [] ((Finalized /\ props.topology = "edge") =>
              /\ RevalidationRan
              /\ RevalidationKeys \subseteq DOMAIN serverLambdaForEdge.environment
              /\ serverLambdaForEdge.code = payload
              /\ HashSuffix(template) = calculateHash(serverLambdaForEdge)
              /\ template = SubSeq(originalLogicalId,
                                   Len(originalLogicalId)
                                     - Min(Len(originalLogicalId),
                                           MaxLogicalIdLen - HashWidth) + 1,
                                   Len(originalLogicalId))
                              \o HashSuffix(template))
    /\ [][Finalized => serverLambdaForEdge' = serverLambdaForEdge]_vars

C10_Witness ==
    /\ phase = "synthesized"
    /\ props.topology = "edge"
    /\ RevalidationRan
    /\ "REVALIDATION_QUEUE_URL" \in DOMAIN serverLambdaForEdge.environment
    /\ HashSuffix(template) = calculateHash([code |-> payload])

====
